---- MODULE Spec2Model ----
(***************************************************************************)
(* Model of chicago_participatory_urbanism/geocoder.py: two tables loaded  *)
(* at import (df, the address points; gdf, the street centre lines) and    *)
(* three resolvers that query them.                                        *)
(*                                                                         *)
(* Strings are sequences of one-character strings, so that str.upper() is  *)
(* computed letter by letter.  A DataFrame is a sequence of rows in        *)
(* dataset order; each row is a record of its columns plus "index", the    *)
(* row label that boolean selection keeps.  A Series is a sequence of      *)
(* [index, value] pairs.  A Python exception raised by a library call is   *)
(* the value [ok |-> FALSE, exc |-> name]; a normal return is              *)
(* [ok |-> TRUE, value |-> v].                                             *)
(***************************************************************************)
EXTENDS Integers, Sequences, FiniteSets

\* address_points_csv: the packaged Address_Points_reduced.csv
\* street_center_lines: the packaged Street Center Lines.geojson
\* df, gdf: the module's address table and street table
\* lastCall: the call whose result the caller holds, if any
\* lastResult: what that call returned
VARIABLES address_points_csv, street_center_lines, df, gdf, lastCall, lastResult

vars == <<address_points_csv, street_center_lines, df, gdf, lastCall, lastResult>>

(***************************************************************************)
(* Bounds of the model.                                                    *)
(***************************************************************************)
MaxRows == 2          \* rows of the address table
MaxNum == 2           \* street numbers and queried numbers are 0..MaxNum
MaxFuzz == 2          \* fuzziness is 0..MaxFuzz
MaxStreetRows == 3    \* rows of the street centre line table

(***************************************************************************)
(* str.upper()                                                             *)
(***************************************************************************)
LowerLetters ==
    <<"a","b","c","d","e","f","g","h","i","j","k","l","m",
      "n","o","p","q","r","s","t","u","v","w","x","y","z">>

UpperLetters ==
    <<"A","B","C","D","E","F","G","H","I","J","K","L","M",
      "N","O","P","Q","R","S","T","U","V","W","X","Y","Z">>

\* the upper-case letter of every lower-case letter
UpperOf == [c \in {LowerLetters[i] : i \in DOMAIN LowerLetters} |->
               UpperLetters[CHOOSE i \in DOMAIN LowerLetters : LowerLetters[i] = c]]

LowerOf == [c \in {UpperLetters[i] : i \in DOMAIN UpperLetters} |->
               LowerLetters[CHOOSE i \in DOMAIN UpperLetters : UpperLetters[i] = c]]

UpperChar(c) == IF c \in DOMAIN UpperOf THEN UpperOf[c] ELSE c

LowerChar(c) == IF c \in DOMAIN LowerOf THEN LowerOf[c] ELSE c

upper(s) == [i \in DOMAIN s |-> UpperChar(s[i])]

lower(s) == [i \in DOMAIN s |-> LowerChar(s[i])]

(***************************************************************************)
(* Python values returned by the resolvers.                                *)
(***************************************************************************)
None == [kind |-> "None"]

Point(longitude, latitude) == [kind |-> "Point", x |-> longitude, y |-> latitude]

Returned(v) == [ok |-> TRUE, value |-> v]

Raised(e) == [ok |-> FALSE, exc |-> e]

(***************************************************************************)
(* pandas: Series, positional and label access, idxmin.                    *)
(***************************************************************************)
Column(frame, c) == [i \in DOMAIN frame |-> [index |-> frame[i].index, value |-> frame[i][c]]]

ilocLast(series) ==
    IF series = <<>> THEN Raised("IndexError") ELSE Returned(series[Len(series)].value)

\* series.iloc[0]: the first element by position; IndexError on an empty series
iloc0(series) ==
    IF series = <<>> THEN Raised("IndexError") ELSE Returned(series[1].value)

SeriesMin(series) ==
    CHOOSE m \in {series[i].value : i \in DOMAIN series} :
        \A i \in DOMAIN series : m <= series[i].value

SeriesMax(series) ==
    CHOOSE m \in {series[i].value : i \in DOMAIN series} :
        \A i \in DOMAIN series : m >= series[i].value

FirstPos(series, v) ==
    CHOOSE i \in DOMAIN series :
        /\ series[i].value = v
        /\ \A j \in DOMAIN series : series[j].value = v => i <= j

LastPos(series, v) ==
    CHOOSE i \in DOMAIN series :
        /\ series[i].value = v
        /\ \A j \in DOMAIN series : series[j].value = v => i >= j

idxminLast(series) ==
    IF series = <<>> THEN Raised("ValueError")
    ELSE Returned(series[LastPos(series, SeriesMin(series))].index)

idxmax(series) ==
    IF series = <<>> THEN Raised("ValueError")
    ELSE Returned(series[FirstPos(series, SeriesMax(series))].index)

\* series.idxmin(): the label of the first occurrence of the minimum;
\* ValueError on an empty series
idxmin(series) ==
    IF series = <<>> THEN Raised("ValueError")
    ELSE Returned(series[FirstPos(series, SeriesMin(series))].index)

\* frame.loc[label, c]; KeyError when no row carries the label
loc(frame, label, c) ==
    IF \E i \in DOMAIN frame : frame[i].index = label
    THEN Returned(frame[CHOOSE i \in DOMAIN frame : frame[i].index = label][c])
    ELSE Raised("KeyError")

Abs(n) == IF n < 0 THEN -n ELSE n

\* frame[name] = values: the frame with one more column
WithColumn(frame, name, values) ==
    [i \in DOMAIN frame |->
        [c \in DOMAIN frame[i] \cup {name} |->
            IF c = name THEN values[i] ELSE frame[i][c]]]

(***************************************************************************)
(* Exact-address resolver.                                                 *)
(***************************************************************************)
get_street_address_coordinates_from_full_name(d, address) ==
    LET key == upper(address)
        result == SelectSeq(d, LAMBDA r : r.CMPADDABRV = key)
        longitude == iloc0(Column(result, "Long"))
        latitude == iloc0(Column(result, "Lat"))
    IN  IF longitude.ok /\ latitude.ok
        THEN Returned(Point(longitude.value, latitude.value))
        ELSE Returned(Point(0, 0))

(***************************************************************************)
(* Fuzzy-address resolver.                                                 *)
(***************************************************************************)
InWindowStrict(number, address_number, fuzziness) ==
    /\ address_number - fuzziness < number
    /\ number < address_number + fuzziness

InWindowNoLower(number, address_number, fuzziness) ==
    number <= address_number + fuzziness

\* the numeric part of the row mask
InWindow(number, address_number, fuzziness) ==
    /\ address_number - fuzziness <= number
    /\ number <= address_number + fuzziness

AssignDifferenceShared(frames, address_number) ==
    [frames EXCEPT
        !.df = WithColumn(@, "difference",
                   [i \in DOMAIN @ |-> Abs(@[i].Add_Number - address_number)]),
        !.results = WithColumn(@, "difference",
                   [i \in DOMAIN @ |-> Abs(@[i].Add_Number - address_number)])]

\* results['difference'] = abs(results['Add_Number'] - address_number), where
\* results is the copy made of the selection: the column is added to it alone
AssignDifference(frames, address_number) ==
    [frames EXCEPT
        !.results = WithColumn(@, "difference",
                   [i \in DOMAIN @ |-> Abs(@[i].Add_Number - address_number)])]

\* the frames the call leaves behind and what it returns
get_street_address_coordinates(d, address_number, direction_abbr, street_name, street_type_abbr, fuzziness) ==
    LET dir == upper(direction_abbr)
        name == upper(street_name)
        type == upper(street_type_abbr)
        results == SelectSeq(d, LAMBDA r :
                       /\ InWindow(r.Add_Number, address_number, fuzziness)
                       /\ r.LSt_PreDir = dir
                       /\ r.St_Name = name
                       /\ r.LSt_Type = type)
        exact_address == SelectSeq(results, LAMBDA r : r.Add_Number = address_number)
        frames0 == [df |-> d, results |-> results]
    IN  IF exact_address # <<>>
        THEN LET longitude == iloc0(Column(exact_address, "Long"))
                 latitude == iloc0(Column(exact_address, "Lat"))
             IN  [df |-> frames0.df,
                  ret |-> IF longitude.ok /\ latitude.ok
                          THEN Returned(Point(longitude.value, latitude.value))
                          ELSE Returned(None)]
        ELSE LET frames1 == AssignDifference(frames0, address_number)
                 closest_index == idxmin(Column(frames1.results, "difference"))
                 longitude == IF closest_index.ok
                              THEN loc(frames1.results, closest_index.value, "Long")
                              ELSE closest_index
                 latitude == IF closest_index.ok
                             THEN loc(frames1.results, closest_index.value, "Lat")
                             ELSE closest_index
             IN  [df |-> frames1.df,
                  ret |-> IF longitude.ok /\ latitude.ok
                          THEN Returned(Point(longitude.value, latitude.value))
                          ELSE Returned(None)]

(***************************************************************************)
(* shapely on the street grid.  Every centre line segment joins two        *)
(* neighbouring grid points, so two segments either coincide or meet in a  *)
(* common end point.  A geometry is the set of its segments ("lines") and  *)
(* of its isolated points ("points").                                      *)
(***************************************************************************)
LexLess(p, q) == p[1] < q[1] \/ (p[1] = q[1] /\ p[2] < q[2])

LineString(p, q) == [kind |-> "LineString", coords |-> <<p, q>>]

\* unary_union: the segments of all the rows, each once
unary_union(geometries) ==
    [points |-> {}, lines |-> {geometries[i].coords : i \in DOMAIN geometries}]

Vertices(g) == g.points \cup {l[1] : l \in g.lines} \cup {l[2] : l \in g.lines}

\* a.intersection(b): the shared segments, and the shared points off them
intersection(a, b) ==
    LET shared == a.lines \cap b.lines
        onShared == {l[1] : l \in shared} \cup {l[2] : l \in shared}
    IN  [points |-> (Vertices(a) \cap Vertices(b)) \ onShared, lines |-> shared]

is_empty(g) == g.points = {} /\ g.lines = {}

\* the shapely class of a geometry
GeomType(g) ==
    IF is_empty(g) THEN "GeometryCollection"
    ELSE IF g.lines = {} THEN (IF Cardinality(g.points) = 1 THEN "Point" ELSE "MultiPoint")
    ELSE IF g.points = {} THEN (IF Cardinality(g.lines) = 1 THEN "LineString" ELSE "MultiLineString")
    ELSE "GeometryCollection"

\* geoms[0] of a multi-point: the parts are kept in coordinate order
FirstPoint(g) == CHOOSE p \in g.points : \A q \in g.points : p = q \/ LexLess(p, q)

\* coords[0] of a line string, geoms[0].coords[0] of a multi-line string
FirstLineCoord(g) ==
    (CHOOSE l \in g.lines : \A m \in g.lines : l = m \/ LexLess(l[1], m[1])
                                \/ (l[1] = m[1] /\ LexLess(l[2], m[2])))[1]

Coord(p) == [kind |-> "tuple", x |-> p[1], y |-> p[2]]

Geometry(g) == [kind |-> GeomType(g), points |-> g.points, lines |-> g.lines]

(***************************************************************************)
(* Intersection resolver.                                                  *)
(***************************************************************************)
ClassifyPointDropped(g) ==
    IF ~ is_empty(g)
    THEN IF GeomType(g) = "MultiPoint" THEN Returned(None)
         ELSE IF GeomType(g) = "LineString" THEN Returned(Coord(FirstLineCoord(g)))
         ELSE IF GeomType(g) = "MultiLineString" THEN Returned(Coord(FirstLineCoord(g)))
         ELSE IF GeomType(g) = "Point" THEN Returned(None)
         ELSE Returned(Geometry(g))
    ELSE Returned(None)

ClassifyNoEmptyTest(g) ==
    IF GeomType(g) = "MultiPoint" THEN Returned(None)
    ELSE IF GeomType(g) = "LineString" THEN Returned(Coord(FirstLineCoord(g)))
    ELSE IF GeomType(g) = "MultiLineString" THEN Returned(Coord(FirstLineCoord(g)))
    ELSE IF GeomType(g) = "Point" THEN Returned(Point(FirstPoint(g)[1], FirstPoint(g)[2]))
    ELSE Returned(Geometry(g))

\* the branches on the intersection's class
Classify(g) ==
    IF ~ is_empty(g)
    THEN IF GeomType(g) = "MultiPoint" THEN Returned(None)
         ELSE IF GeomType(g) = "LineString" THEN Returned(Coord(FirstLineCoord(g)))
         ELSE IF GeomType(g) = "MultiLineString" THEN Returned(Coord(FirstLineCoord(g)))
         ELSE IF GeomType(g) = "Point" THEN Returned(Point(FirstPoint(g)[1], FirstPoint(g)[2]))
         ELSE Returned(Geometry(g))
    ELSE Returned(None)

StreetGeometry(g, street) ==
    LET key == upper(street)
        street_data == SelectSeq(g, LAMBDA r : r.street_nam = key)
    IN  unary_union([i \in DOMAIN street_data |-> street_data[i].geometry])

get_intersection_coordinates(g, street1, street2) ==
    IF street1 = street2
    THEN Returned(None)
    ELSE Classify(intersection(StreetGeometry(g, street1), StreetGeometry(g, street2)))

(***************************************************************************)
(* The data the tables are drawn from.                                     *)
(***************************************************************************)
Nums == 0..MaxNum

Fuzzes == 0..MaxFuzz

Digits == <<"0","1","2","3","4","5","6","7","8","9">>

BELMONT == <<"B","E","L","M","O","N","T">>

CLARK == <<"C","L","A","R","K">>

\* direction, street name and type of the streets that have address points
StreetKeys ==
    { <<<<"W">>, BELMONT, <<"A","V","E">>>>,
      <<<<"N">>, BELMONT, <<"A","V","E">>>>,
      <<<<"W">>, CLARK, <<"A","V","E">>>>,
      <<<<"W">>, BELMONT, <<"S","T">>>> }

\* the canonical full address of the data, as in "1763 W BELMONT AVE"
FullAddress(n, k) == <<Digits[n + 1]>> \o <<" ">> \o k[1] \o <<" ">> \o k[2] \o <<" ">> \o k[3]

AddressRow(i, n, k) ==
    [index |-> i - 1, CMPADDABRV |-> FullAddress(n, k), Add_Number |-> n,
     LSt_PreDir |-> k[1], St_Name |-> k[2], LSt_Type |-> k[3],
     Long |-> 0 - 87 - i, Lat |-> 41 + i]

AddressTables ==
    UNION { { [i \in 1..len |-> AddressRow(i, c[i][1], c[i][2])] :
                c \in [1..len -> Nums \X StreetKeys] } : len \in 0..MaxRows }

SampleAddresses ==
    << AddressRow(1, 1, <<<<"W">>, BELMONT, <<"A","V","E">>>>),
       AddressRow(2, 0, <<<<"W">>, BELMONT, <<"A","V","E">>>>) >>

\* the centre line segments of the grid
Segments ==
    { <<<<0, 0>>, <<0, 1>>>>, <<<<0, 0>>, <<1, 0>>>>, <<<<1, 0>>, <<1, 1>>>> }

StreetRow(i, name, seg) ==
    [index |-> i - 1, street_nam |-> name, geometry |-> LineString(seg[1], seg[2])]

StreetTables ==
    UNION { { [i \in 1..len |-> StreetRow(i, c[i][1], c[i][2])] :
                c \in [1..len -> {BELMONT, CLARK} \X Segments] } : len \in 0..MaxStreetRows }

SampleStreets ==
    << StreetRow(1, BELMONT, <<<<0, 0>>, <<1, 0>>>>),
       StreetRow(2, CLARK, <<<<0, 0>>, <<0, 1>>>>) >>

(***************************************************************************)
(* The arguments the callers pass.                                         *)
(***************************************************************************)
AddressInputs ==
    { lower(FullAddress(n, <<<<"W">>, BELMONT, <<"A","V","E">>>>)) : n \in Nums }
    \cup { FullAddress(n, <<<<"N">>, BELMONT, <<"A","V","E">>>>) : n \in Nums }
    \cup { <<"x">> }

ComponentInputs ==
    { << <<"w">>, <<"B","e","l","m","o","n","t">>, <<"a","v","e">> >>,
      << <<"N">>, BELMONT, <<"A","V","E">> >> }

StreetInputs == { <<"B","e","l","m","o","n","t">>, BELMONT, CLARK }

(***************************************************************************)
(* The program: the import loads the two tables from the packaged files;   *)
(* after that callers call the resolvers, one call at a time, and take the *)
(* result.                                                                 *)
(***************************************************************************)
NoCall == [op |-> "none"]

Init ==
    /\ \/ address_points_csv \in AddressTables /\ street_center_lines = SampleStreets
       \/ address_points_csv = SampleAddresses /\ street_center_lines \in StreetTables
    /\ df = address_points_csv
    /\ gdf = street_center_lines
    /\ lastCall = NoCall
    /\ lastResult = Returned(None)

ExactAddress ==
    /\ lastCall = NoCall
    /\ \E address \in AddressInputs :
        /\ lastCall' = [op |-> "exact", address |-> address]
        /\ lastResult' = get_street_address_coordinates_from_full_name(df, address)
    /\ UNCHANGED <<address_points_csv, street_center_lines, df, gdf>>

FuzzyAddress ==
    /\ lastCall = NoCall
    /\ \E address_number \in Nums, c \in ComponentInputs, fuzziness \in Fuzzes :
        LET r == get_street_address_coordinates(df, address_number, c[1], c[2], c[3], fuzziness)
        IN  /\ lastCall' = [op |-> "fuzzy", address_number |-> address_number,
                            direction_abbr |-> c[1], street_name |-> c[2],
                            street_type_abbr |-> c[3], fuzziness |-> fuzziness]
            /\ lastResult' = r.ret
            /\ df' = r.df
    /\ UNCHANGED <<address_points_csv, street_center_lines, gdf>>

Intersection ==
    /\ lastCall = NoCall
    /\ \E street1 \in StreetInputs, street2 \in StreetInputs :
        /\ lastCall' = [op |-> "intersection", street1 |-> street1, street2 |-> street2]
        /\ lastResult' = get_intersection_coordinates(gdf, street1, street2)
    /\ UNCHANGED <<address_points_csv, street_center_lines, df, gdf>>

\* the caller has used the result and is ready to call again
TakeResult ==
    /\ lastCall # NoCall
    /\ lastCall' = NoCall
    /\ lastResult' = Returned(None)
    /\ UNCHANGED <<address_points_csv, street_center_lines, df, gdf>>

Next == ExactAddress \/ FuzzyAddress \/ Intersection \/ TakeResult

Spec == Init /\ [][Next]_vars

(***************************************************************************)
(* What the claims speak of, read off the tables directly.                 *)
(***************************************************************************)
IsExact == lastCall.op = "exact"

IsFuzzy == lastCall.op = "fuzzy"

IsIntersection == lastCall.op = "intersection"

\* rows whose full address is the upper-cased input of the exact call
FullMatches == {i \in DOMAIN df : df[i].CMPADDABRV = upper(lastCall.address)}

\* rows on the street of the fuzzy call
OnStreet ==
    {i \in DOMAIN df : /\ df[i].LSt_PreDir = upper(lastCall.direction_abbr)
                       /\ df[i].St_Name = upper(lastCall.street_name)
                       /\ df[i].LSt_Type = upper(lastCall.street_type_abbr)}

Distance(i) == Abs(df[i].Add_Number - lastCall.address_number)

ExactNumber == {i \in OnStreet : df[i].Add_Number = lastCall.address_number}

Candidates == {i \in OnStreet : Distance(i) <= lastCall.fuzziness}

Closest == {i \in Candidates : \A j \in Candidates : Distance(i) <= Distance(j)}

First(S) == CHOOSE i \in S : \A j \in S : i <= j

RowPoint(i) == Returned(Point(df[i].Long, df[i].Lat))

SegmentsOf(street) ==
    {gdf[i].geometry.coords : i \in {j \in DOMAIN gdf : gdf[j].street_nam = upper(street)}}

EndsOf(segs) == {l[1] : l \in segs} \cup {l[2] : l \in segs}

CommonSegments == SegmentsOf(lastCall.street1) \cap SegmentsOf(lastCall.street2)

\* the points the two streets share apart from whole shared segments
CommonPoints ==
    (EndsOf(SegmentsOf(lastCall.street1)) \cap EndsOf(SegmentsOf(lastCall.street2)))
        \ EndsOf(CommonSegments)

LeastPoint(S) == CHOOSE p \in S : \A q \in S : p = q \/ LexLess(p, q)

(***************************************************************************)
(* C1: the exact-address resolver returns normally, with the coordinate of *)
(* the first row in dataset order whose full address equals the            *)
(* upper-cased input, and with the point (0,0) when no row matches.        *)
(***************************************************************************)
C1_ExactFirstMatchOrSentinel ==
    IsExact =>
        lastResult = IF FullMatches = {} THEN Returned(Point(0, 0))
                     ELSE RowPoint(First(FullMatches))

\* a lower-case input that two rows match
C1_Witness ==
    /\ IsExact
    /\ lastCall.address # upper(lastCall.address)
    /\ Cardinality(FullMatches) >= 2
    /\ lastResult = RowPoint(First(FullMatches))

(***************************************************************************)
(* C2: when some row on the queried street carries exactly the queried     *)
(* number, the fuzzy resolver returns the coordinate of the first such row *)
(* in dataset order, whatever the fuzziness >= 0.                          *)
(***************************************************************************)
C2_FuzzyExactNumberFirst ==
    (IsFuzzy /\ ExactNumber # {}) => lastResult = RowPoint(First(ExactNumber))

\* two rows with the queried number, queried with fuzziness 0
C2_Witness ==
    /\ IsFuzzy
    /\ lastCall.fuzziness = 0
    /\ Cardinality(ExactNumber) >= 2
    /\ lastResult = RowPoint(First(ExactNumber))

(***************************************************************************)
(* C3: when no candidate carries the queried number and the candidate set  *)
(* is not empty, the fuzzy resolver returns the coordinate of the          *)
(* candidate nearest in number, the first in dataset order among several   *)
(* at that distance.                                                       *)
(***************************************************************************)
C3_FuzzyClosestFirst ==
    (IsFuzzy /\ ExactNumber = {} /\ Candidates # {}) => lastResult = RowPoint(First(Closest))

\* one candidate below and one above the queried number, equally far
C3_Witness ==
    /\ IsFuzzy
    /\ ExactNumber = {}
    /\ \E i \in Closest, j \in Closest :
            /\ df[i].Add_Number < lastCall.address_number
            /\ df[j].Add_Number > lastCall.address_number
    /\ lastResult = RowPoint(First(Closest))

(***************************************************************************)
(* C4: the fuzzy resolver returns normally; it returns None exactly when   *)
(* the candidate set is empty, and None is no point, (0,0) included.       *)
(***************************************************************************)
C4_FuzzyNoMatchIffNoCandidate ==
    IsFuzzy =>
        /\ lastResult.ok
        /\ (Candidates = {}) <=> (lastResult.value = None)
        /\ lastResult.value = None => lastResult.value # Point(0, 0)
        /\ lastResult.value # None => lastResult.value.kind = "Point"

\* rows on the street, none of them inside the window
C4_Witness ==
    /\ IsFuzzy
    /\ OnStreet # {}
    /\ Candidates = {}
    /\ lastResult = Returned(None)

(***************************************************************************)
(* C5: for two street names equal after upper-casing, the intersection     *)
(* resolver returns None.                                                  *)
(***************************************************************************)
C5_SameNormalizedNameNoResult ==
    (IsIntersection /\ upper(lastCall.street1) = upper(lastCall.street2))
        => lastResult = Returned(None)

(***************************************************************************)
(* C6: when two distinct streets meet in several points and share no       *)
(* segment, the intersection resolver returns the first of those points.   *)
(***************************************************************************)
C6_MultiPointFirstPoint ==
    (/\ IsIntersection
     /\ upper(lastCall.street1) # upper(lastCall.street2)
     /\ CommonSegments = {}
     /\ Cardinality(CommonPoints) >= 2)
        => /\ lastResult.ok
           /\ lastResult.value.kind \in {"Point", "tuple"}
           /\ <<lastResult.value.x, lastResult.value.y>> = LeastPoint(CommonPoints)

(***************************************************************************)
(* C7: when two distinct streets meet in exactly one point, the            *)
(* intersection resolver returns that point.                               *)
(***************************************************************************)
C7_SinglePointReturned ==
    (/\ IsIntersection
     /\ upper(lastCall.street1) # upper(lastCall.street2)
     /\ CommonSegments = {}
     /\ Cardinality(CommonPoints) = 1)
        => \E p \in CommonPoints : lastResult = Returned(Point(p[1], p[2]))

\* two streets of two segments each that touch in one point
C7_Witness ==
    /\ IsIntersection
    /\ CommonSegments = {}
    /\ Cardinality(CommonPoints) = 1
    /\ Cardinality(SegmentsOf(lastCall.street1)) + Cardinality(SegmentsOf(lastCall.street2)) >= 3
    /\ lastResult.value.kind = "Point"

(***************************************************************************)
(* C8: for two distinct names whose streets share nothing (they never      *)
(* meet, or a name has no rows), the intersection resolver returns None;   *)
(* and every call of it returns normally.                                  *)
(***************************************************************************)
C8_EmptyIntersectionNoResult ==
    IsIntersection =>
        /\ lastResult.ok
        /\ (/\ lastCall.street1 # lastCall.street2
            /\ CommonSegments = {}
            /\ CommonPoints = {}) => lastResult = Returned(None)

\* two streets that both have segments and never meet
C8_Witness ==
    /\ IsIntersection
    /\ upper(lastCall.street1) # upper(lastCall.street2)
    /\ SegmentsOf(lastCall.street1) # {}
    /\ SegmentsOf(lastCall.street2) # {}
    /\ CommonSegments = {}
    /\ CommonPoints = {}
    /\ lastResult = Returned(None)

(***************************************************************************)
(* C9: after any sequence of calls the two tables are as they were loaded  *)
(* (same rows, columns and values), so every call returns what the same    *)
(* call returns on the tables as loaded.                                   *)
(***************************************************************************)
C9_TablesUnchanged ==
    /\ df = address_points_csv
    /\ gdf = street_center_lines
    /\ IsExact => lastResult =
           get_street_address_coordinates_from_full_name(address_points_csv, lastCall.address)
    /\ IsFuzzy => lastResult =
           get_street_address_coordinates(address_points_csv, lastCall.address_number,
               lastCall.direction_abbr, lastCall.street_name, lastCall.street_type_abbr,
               lastCall.fuzziness).ret
    /\ IsIntersection => lastResult =
           get_intersection_coordinates(street_center_lines, lastCall.street1, lastCall.street2)

\* a fuzzy call that took the closest-address branch over two candidates
C9_Witness ==
    /\ IsFuzzy
    /\ ExactNumber = {}
    /\ Cardinality(Candidates) >= 2
    /\ lastResult.value # None
    /\ df = address_points_csv

(***************************************************************************)
(* C10: if the fuzzy resolver returns a coordinate for fuzziness f, the    *)
(* same query returns the same coordinate for every fuzziness f' >= f.     *)
(***************************************************************************)
C10_FuzzinessMonotone ==
    (IsFuzzy /\ lastResult.value # None) =>
        \A f \in lastCall.fuzziness..MaxFuzz :
            get_street_address_coordinates(df, lastCall.address_number,
                lastCall.direction_abbr, lastCall.street_name, lastCall.street_type_abbr,
                f).ret = lastResult

\* a coordinate was found although a row on the street lay outside the
\* window, which a wider window takes in
C10_Witness ==
    /\ IsFuzzy
    /\ lastResult.value # None
    /\ ExactNumber = {}
    /\ \E i \in OnStreet : /\ Distance(i) > lastCall.fuzziness
                           /\ Distance(i) <= MaxFuzz

====
